---- MODULE Spec2Model ----
(***************************************************************************)
(* Model of the sbinary struct codec (tymbaca/sbinary): the recursive      *)
(* encode traversal of encode.go and the decode traversal with its         *)
(* per-struct length table of custom.go, driven through an Encoder and a   *)
(* Decoder that share one byte buffer, as the tests do.                    *)
(*                                                                         *)
(* Representation of Go values:                                            *)
(*   bool                 TRUE / FALSE                                     *)
(*   int8/16/32, uint8/16 the integer                                      *)
(*   uint32               the int32 with the same 32 bits (2^32-1 is held  *)
(*                        as -1)                                           *)
(*   int64, uint64, int,  <<hi, lo>>: the upper and the lower 32 bits,     *)
(*   uint                 each as the int32 with those bits (-2 is         *)
(*                        <<-1, -2>>, 2^32 is <<1, 0>>)                    *)
(*   uintptr              <<hi, lo>> like uint64                           *)
(*   float32/64           the IEEE-754 bit pattern, held like uint32/64    *)
(*   string               the sequence of its bytes                        *)
(*   slice                [nil |-> BOOLEAN, e |-> its elements, spare |->  *)
(*                        the elements its backing array holds after them, *)
(*                        up to the last one that is not zero]; the        *)
(*                        capacity itself is not held.  A slice of 2^31    *)
(*                        elements or more has also long |-> its length,   *)
(*                        e being its elements up to the last one decoded  *)
(*   array                the sequence of its elements                     *)
(*   struct               the sequence of its field values, in             *)
(*                        declaration order                                *)
(*   pointer, interface,  <<>> for nil, <<referent>> otherwise             *)
(*   map                                                                   *)
(*   complex128           an integer standing for the value                *)
(*   a count (a Go int)   <<hi, lo>> like int64                            *)
(*                                                                         *)
(* A call ends by returning nil, by returning an error, or in the hands of *)
(* the runtime: makeslice and growslice panic on a length beyond maxAlloc  *)
(* (2^48 bytes on a 64-bit build), and an allocation                       *)
(* for 2^31 elements or more that they accept is one the system may have   *)
(* no memory for (fatal error: out of memory).  Smaller allocations are    *)
(* taken to be served.                                                     *)
(*                                                                         *)
(* Specifications:                                                         *)
(*   Spec        one value encoded, then Decode calls on the buffer (also  *)
(*               on what is left of it, also into a used destination) and  *)
(*               Unmarshal calls on its bytes                              *)
(*   SpecTargets Spec with Decode also given a value or a nil pointer      *)
(*   SpecStream  several values on one buffer, decoded one by one          *)
(*   SpecCut     one value encoded, its designators right, wrong or        *)
(*               beyond what can be allocated, and one Decode call on a    *)
(*               source that holds the encoding or ends inside it          *)
(*   SpecOrders  encoded with one byte order, decoded with the other       *)
(***************************************************************************)
EXTENDS Integers, Sequences, FiniteSets, TLC

\* ------------------------------------------------------------------ bounds
\* longest string / byte buffer / slice the caller builds
MaxLen == 2

\* size in bytes of the native int / uint of the build (64-bit platform)
NativeIntSize == 8
\* the most values the caller puts on one stream
MaxValues == 2

\* ------------------------------------------------------------ byte helpers
RECURSIVE Reverse(_)
Reverse(s) == IF s = <<>> THEN <<>> ELSE Reverse(Tail(s)) \o <<Head(s)>>

RECURSIVE Flatten(_)
Flatten(ss) == IF ss = <<>> THEN <<>> ELSE Head(ss) \o Flatten(Tail(ss))

Take(s, n) == SubSeq(s, 1, n)
Drop(s, n) == SubSeq(s, n + 1, Len(s))

\* little-endian two's-complement image of v on w bytes
\* (binary.LittleEndian.PutUintN after the conversion to uintN)
RECURSIVE PutLE(_, _)
PutLE(v, w) == IF w = 0 THEN <<>> ELSE <<v % 256>> \o PutLE(v \div 256, w - 1)

\* binary.ByteOrder.PutUintN
PutUint(order, v, w) ==
    LET le == IF w = 8 THEN PutLE(v[2], 4) \o PutLE(v[1], 4) ELSE PutLE(v, w)
    IN  IF order = "LE" THEN le ELSE Reverse(le)

\* the unsigned value of little-endian bytes
RECURSIVE UintLE(_)
UintLE(bs) == IF bs = <<>> THEN 0 ELSE Head(bs) + 256 * UintLE(Tail(bs))

\* the two's-complement value of little-endian bytes
RECURSIVE IntLE(_)
IntLE(bs) ==
    IF Len(bs) = 1 THEN (IF bs[1] >= 128 THEN bs[1] - 256 ELSE bs[1])
    ELSE Head(bs) + 256 * IntLE(Tail(bs))

\* -------------------------------------------------------------- the kinds
SignedKinds   == {"int", "int8", "int16", "int32", "int64"}
UnsignedKinds == {"uint", "uint8", "uint16", "uint32", "uint64"}
FloatKinds    == {"float32", "float64"}
NumericKinds  == {"bool"} \cup SignedKinds \cup UnsignedKinds \cup FloatKinds

\* the fixed-size type T that encode/decode instantiate writeNumeric[T] /
\* decodeNumeric[T] with; int and uint are normalised by val.Type().Size()
FixedKind(k) ==
    CASE k = "int"  -> (IF NativeIntSize = 4 THEN "int32" ELSE "int64")
      [] k = "uint" -> (IF NativeIntSize = 4 THEN "uint32" ELSE "uint64")
      [] OTHER      -> k

\* binary.Size of a fixed-size numeric
Width(k) ==
    CASE k \in {"bool", "int8", "uint8"}          -> 1
      [] k \in {"int16", "uint16"}                -> 2
      [] k \in {"int32", "uint32", "float32"}     -> 4
      [] k \in {"int64", "uint64", "float64"}     -> 8

\* the 64-bit value of the integer n (n sign-extended)
Wide(n) == <<IF n < 0 THEN -1 ELSE 0, n>>

\* the value of kind k that the integer n converts to
Val(k, n) ==
    IF k = "uintptr" THEN Wide(n)
    ELSE IF Width(FixedKind(k)) = 8 THEN Wide(n) ELSE n

\* int(val.Int()) / int(val.Uint()) on a 64-bit build, for a value v of the
\* integer kind k: the 64 bits of the int, as <<hi, lo>>.  A 64-bit value
\* keeps its bits (a uint64 of 2^63 or more comes out negative), a smaller
\* unsigned value is zero-extended, a smaller signed one sign-extended.
IntOf(k, v) ==
    CASE k \in {"int64", "uint64", "uintptr"} -> v
      [] k \in {"uint8", "uint16", "uint32"}  -> <<0, v>>
      [] OTHER                                 -> Wide(v)

\* a Go int n held as <<hi, lo>>: n > 0, n < 0, and 0 <= n < 2^31 (n[2] is
\* then the number)
Positive(n) == n[1] > 0 \/ (n[1] = 0 /\ n[2] # 0)
Negative(n) == n[1] < 0
Small(n)    == n[1] = 0 /\ n[2] >= 0

\* the four 16-bit digits of a non-negative int, most significant first
Digits(n) ==
    <<n[1] \div 65536, n[1] % 65536, (n[2] \div 65536) % 65536, n[2] % 65536>>

\* a + b and a * s (s below 2^15) on such digits; what goes beyond 64 bits
\* stays in the first digit
Plus(a, b) ==
    LET s4 == a[4] + b[4]
        s3 == a[3] + b[3] + s4 \div 65536
        s2 == a[2] + b[2] + s3 \div 65536
        s1 == a[1] + b[1] + s2 \div 65536
    IN  <<s1, s2 % 65536, s3 % 65536, s4 % 65536>>

Times(a, s) ==
    LET p4 == a[4] * s
        p3 == a[3] * s + p4 \div 65536
        p2 == a[2] * s + p3 \div 65536
        p1 == a[1] * s + p2 \div 65536
    IN  <<p1, p2 % 65536, p3 % 65536, p4 % 65536>>

Greater(a, b) == \E i \in 1..4 : a[i] > b[i] /\ \A j \in 1..(i - 1) : a[j] = b[j]

\* maxAlloc of the runtime on a 64-bit build, 2^48 bytes, in such digits
MaxAlloc == <<1, 0, 0, 0>>

\* ------------------------------------------------------------- the types
Num(k)        == [k |-> k, custom |-> FALSE]
Str           == [k |-> "string", custom |-> FALSE]
SliceOf(e)    == [k |-> "slice", custom |-> FALSE, elem |-> e]
ArrayOf(n, e) == [k |-> "array", custom |-> FALSE, len |-> n, elem |-> e]
PtrTo(e)      == [k |-> "ptr", custom |-> FALSE, elem |-> e]
Iface         == [k |-> "iface", custom |-> FALSE]
MapType       == [k |-> "map", custom |-> FALSE]
Complex       == [k |-> "complex128", custom |-> FALSE]
Uintptr       == [k |-> "uintptr", custom |-> FALSE]
StructOf(fs)  == [k |-> "struct", custom |-> FALSE, fields |-> fs]

\* a struct field: tag is the value of the `sbin` key, <<>> when absent,
\* <<"-">> for "-", <<"lenof", X>> for "lenof:X"
F(name, tag, type) == [name |-> name, tag |-> tag, exported |-> TRUE, type |-> type]
Unexported(name, type) == [name |-> name, tag |-> <<>>, exported |-> FALSE, type |-> type]
NoTag    == <<>>
Excluded == <<"-">>
LenOf(x) == <<"lenof", x>>


\* ---------------------------------------------------------- the zero value
\* reflect.Zero / reflect.New(t).Elem()
RECURSIVE Zero(_)
Zero(t) ==
    CASE t.k = "bool"   -> FALSE
      [] t.k \in NumericKinds \ {"bool"} -> Val(t.k, 0)
      [] t.k = "string" -> <<>>
      [] t.k = "uintptr" -> Wide(0)
      [] t.k = "slice"  -> [nil |-> TRUE, e |-> <<>>, spare |-> <<>>]
      [] t.k = "array"  -> [i \in 1..t.len |-> Zero(t.elem)]
      [] t.k = "struct" -> [i \in 1..Len(t.fields) |-> Zero(t.fields[i].type)]
      [] t.k = "ptr"    -> <<>>
      [] t.k \in {"iface", "map"} -> <<>>
      [] t.k = "complex128" -> 0

\* unsafe.Sizeof and the alignment of a value of type t on a 64-bit build:
\* what growslice multiplies the new capacity with.  A struct that is not
\* empty and ends in a field of size 0 gets one more byte before it is
\* rounded up to its alignment.
RECURSIVE SizeOf(_)
RECURSIVE Align(_)
RECURSIVE AlignUpTo(_, _)
RECURSIVE EndOf(_, _)
RoundUp(n, a) == ((n + a - 1) \div a) * a

\* the largest alignment among the first n fields of the struct type t
AlignUpTo(t, n) ==
    IF n = 0 THEN 1
    ELSE LET a == Align(t.fields[n].type)
             b == AlignUpTo(t, n - 1)
         IN  IF a > b THEN a ELSE b

Align(t) ==
    CASE t.k \in NumericKinds -> Width(FixedKind(t.k))
      [] t.k = "array"  -> Align(t.elem)
      [] t.k = "struct" -> AlignUpTo(t, Len(t.fields))
      [] OTHER          -> 8

\* the offset at which the n-th field of the struct type t ends
EndOf(t, n) ==
    IF n = 0 THEN 0
    ELSE RoundUp(EndOf(t, n - 1), Align(t.fields[n].type)) + SizeOf(t.fields[n].type)

SizeOf(t) ==
    CASE t.k \in NumericKinds -> Width(FixedKind(t.k))
      [] t.k \in {"string", "iface", "complex128"} -> 16
      [] t.k = "slice"  -> 24
      [] t.k = "array"  -> t.len * SizeOf(t.elem)
      [] t.k = "struct" ->
            LET n   == Len(t.fields)
                end == EndOf(t, n)
                pad == IF n > 0 /\ end > 0 /\ SizeOf(t.fields[n].type) = 0
                       THEN 1 ELSE 0
            IN  RoundUp(end + pad, Align(t))
      [] OTHER          -> 8

\* ------------------------------------------------------ the primitive codec
\* writeNumeric writing big-endian whatever the order
writeNumeric_AlwaysBig(order, k, v) ==
    IF k = "bool" THEN <<IF v THEN 1 ELSE 0>>
    ELSE PutUint("BE", v, Width(k))

\* binary.Write of one fixed-size value: a bool is one byte 1/0, every other
\* value the order's image of its bits
writeNumeric(order, k, v) ==
    IF k = "bool" THEN <<IF v THEN 1 ELSE 0>>
    ELSE PutUint(order, v, Width(k))

\* the value binary.Read stores for the bytes bs of one fixed-size value
numericOf(order, k, bs) ==
    LET le == IF order = "LE" THEN bs ELSE Reverse(bs)
    IN  CASE k = "bool" -> bs[1] # 0
          [] Len(bs) = 8 -> <<IntLE(SubSeq(le, 5, 8)), IntLE(SubSeq(le, 1, 4))>>
          [] Len(bs) = 4 \/ k \in {"int8", "int16"} -> IntLE(le)
          [] OTHER -> UintLE(le)

\* io.ReadFull(r, buf) with len(buf) = n on the unread bytes `from`: a short
\* source is drained and reported (io.EOF / io.ErrUnexpectedEOF)
ReadFull(from, n) ==
    IF Len(from) < n
    THEN [err |-> TRUE, data |-> <<>>, rest |-> <<>>]
    ELSE [err |-> FALSE, data |-> Take(from, n), rest |-> Drop(from, n)]

\* readNumeric[T]: the value (v, ignored on error), whether it failed, and the
\* bytes left unread
readNumeric(from, order, k) ==
    LET r == ReadFull(from, Width(k))
    IN  IF r.err THEN [err |-> TRUE, v |-> Val(k, 0), rest |-> r.rest]
        ELSE [err |-> FALSE, v |-> numericOf(order, k, r.data), rest |-> r.rest]

\* The result of a decode step: err (an error is returned), the error's
\* trace (the field names the error was wrapped with, outermost first, then
\* its cause), the value the destination holds afterwards, the bytes left
\* unread, crash (the message of the run-time panic that ended the step, ""
\* when it returned) and big (the step got as far only because the system
\* served an allocation for 2^31 elements or more).
Ok(v, rest) ==
    [err |-> FALSE, trace |-> <<>>, val |-> v, rest |-> rest, crash |-> "", big |-> FALSE]
Fail(why, v, rest) ==
    [err |-> TRUE, trace |-> <<why>>, val |-> v, rest |-> rest, crash |-> "", big |-> FALSE]
Panic(why, v, rest) ==
    [err |-> FALSE, trace |-> <<>>, val |-> v, rest |-> rest, crash |-> why, big |-> FALSE]

\* the step did not go on: it returned an error or panicked
Stopped(r) == r.err \/ r.crash # ""

\* what the runtime reports when the system has no memory for an allocation
OutOfMemory == "fatal error: out of memory"

\* The ways the call with result r can end: as r says, or, when r rests on
\* an allocation for 2^31 elements or more, with the process killed by the
\* runtime at that allocation (what its variables held is then of no
\* account).
Outcomes(r) ==
    IF r.big
    THEN {r, [r EXCEPT !.err = FALSE, !.trace = <<>>, !.crash = OutOfMemory]}
    ELSE {r}

\* decodeNumeric[T]: the destination is set only when the read succeeded
decodeNumeric(old, from, order, k) ==
    LET r == readNumeric(from, order, k)
    IN  IF r.err THEN Fail("can't read", old, r.rest) ELSE Ok(r.v, r.rest)

\* ------------------------------------------------------- the custom hooks
\* The hooks of the tests' Custom type (struct{Optional *float64}): one flag
\* byte, then the float64 only when the flag is set.  The same hooks on a
\* type of another kind (Tiny: uint8, set = non-zero) write the flag and then
\* the value on its own width.
customPresent(t, v) == IF t.k = "struct" THEN v[1] # <<>> ELSE v # 0
customPayload(t, v) == IF t.k = "struct" THEN v[1][1] ELSE v
customKind(t)       == IF t.k = "struct" THEN "float64" ELSE t.k

customEncode(t, v, order) ==
    IF customPresent(t, v)
    THEN writeNumeric(order, "bool", TRUE) \o writeNumeric(order, customKind(t), customPayload(t, v))
    ELSE writeNumeric(order, "bool", FALSE)

customDecode(t, old, from, order) ==
    LET flag == readNumeric(from, order, "bool")
    IN  IF flag.err THEN Fail("custom", old, flag.rest)
        ELSE IF flag.v
        THEN LET p == readNumeric(flag.rest, order, customKind(t))
             IN  IF p.err THEN Fail("custom", old, p.rest)
                 ELSE Ok(IF t.k = "struct" THEN <<<<p.v>>>> ELSE p.v, p.rest)
        ELSE Ok(old, flag.rest)

\* ------------------------------------------------------------------ encode
\* skipped looking at the tag only
skipped_TagOnly(f) == f.tag = Excluded

\* fieldTag == "-" || !fieldInfo.IsExported()
skipped(f) == f.tag = Excluded \/ ~f.exported

RECURSIVE encode(_, _, _)
encodeSliceOrArray(t, elems, order) ==
    Flatten([i \in 1..Len(elems) |-> encode(t.elem, elems[i], order)])

\* encodeStruct writing a count byte in front of every string field
encodeStruct_CountsStrings(t, v, order) ==
    Flatten([i \in 1..Len(t.fields) |->
                IF skipped(t.fields[i]) THEN <<>>
                ELSE (IF t.fields[i].type.k = "string" THEN <<Len(v[i])>> ELSE <<>>)
                     \o encode(t.fields[i].type, v[i], order)])

\* the struct case: the fields in declaration order, the skipped ones left out
encodeStruct(t, v, order) ==
    Flatten([i \in 1..Len(t.fields) |->
                IF skipped(t.fields[i]) THEN <<>>
                ELSE encode(t.fields[i].type, v[i], order)])

\* encodePointer writing nothing for a nil pointer
encodePointer_SkipNil(t, v, order) ==
    IF v = <<>> THEN <<>> ELSE encode(t.elem, v[1], order)

\* the pointer case: a nil pointer is replaced by a pointer to a new zero
\* value, then the referent is encoded
encodePointer(t, v, order) ==
    encode(t.elem, IF v = <<>> THEN Zero(t.elem) ELSE v[1], order)

\* the bytes encode writes for a value v of type t (a bytes.Buffer never
\* fails, so encode has no error outcome here)
encode(t, v, order) ==
    IF t.custom THEN customEncode(t, v, order)
    ELSE CASE t.k \in NumericKinds -> writeNumeric(order, FixedKind(t.k), v)
           [] t.k = "string" -> v
           [] t.k = "slice"  ->
                IF t.elem.k = "uint8" THEN v.e
                ELSE encodeSliceOrArray(t, v.e, order)
           [] t.k = "array"  ->
                IF t.elem.k = "uint8" THEN v
                ELSE encodeSliceOrArray(t, v, order)
           [] t.k = "struct" -> encodeStruct(t, v, order)
           [] t.k = "ptr"    -> encodePointer(t, v, order)
           [] t.k = "iface"  -> <<>>
           [] OTHER          -> <<>>

\* ------------------------------------------------------------------ decode
\* a length table that already holds a length for "Data" on entering a struct
NoLens_Stale == [n \in {"Data"} |-> Wide(1)]

\* the length table of one struct traversal: lens[name] = size
NoLens == [n \in {} |-> 0]
PutLen(lens, name, size) ==
    [n \in DOMAIN lens \cup {name} |-> IF n = name THEN size ELSE lens[n]]

\* the `size *int` parameter of decode: <<>> is nil, <<n>> points to n
NoSize == <<>>

\* sizeOfAnotherField(val, tag): (targetField, size, ok)
RECURSIVE sizeOfAnotherField(_, _, _)
\* sizeOfAnotherField taking a length only from an integer field itself
sizeOfAnotherField_NoPointers(t, v, tag) ==
    IF t.k \in SignedKinds \cup UnsignedKinds \cup {"uintptr"}
       /\ Len(tag) = 2 /\ tag[1] = "lenof"
    THEN [ok |-> TRUE, target |-> tag[2], size |-> IntOf(FixedKind(t.k), v)]
    ELSE [ok |-> FALSE, target |-> "", size |-> Wide(0)]

\* val.CanInt() holds for the signed integer kinds, val.CanUint() for the
\* unsigned ones and for uintptr, whether or not the type has the hooks; the
\* size is taken from what the field holds after its decode
sizeOfAnotherField(t, v, tag) ==
    LET no   == [ok |-> FALSE, target |-> "", size |-> Wide(0)]
        size == IntOf(FixedKind(t.k), v)
        cut  == IF Len(tag) = 2 /\ tag[1] = "lenof"
                THEN [ok |-> TRUE, target |-> tag[2], size |-> size]
                ELSE no
    IN  CASE t.k \in SignedKinds -> cut
          [] t.k \in UnsignedKinds \cup {"uintptr"} -> cut
          [] t.k = "ptr" ->
                IF v = <<>> THEN no ELSE sizeOfAnotherField(t.elem, v[1], tag)
          [] OTHER -> no

RECURSIVE decode(_, _, _, _, _)
RECURSIVE decodeItems(_, _, _, _, _, _)
RECURSIVE decodeFields(_, _, _, _, _, _)

\* the loop of decodeSliceOrArray from index i on, over the size elements
\* of val: elems holds them (those of a slice too long to hold are zero
\* from Len(elems) + 1 on), each is decoded in place with no size
decodeItems(et, i, elems, from, order, size) ==
    IF i > size THEN Ok(elems, from)
    ELSE LET held == i <= Len(elems)
             r    == decode(et, IF held THEN elems[i] ELSE Zero(et), from, order, NoSize)
             nv   == IF held THEN [elems EXCEPT ![i] = r.val] ELSE Append(elems, r.val)
         IN  IF Stopped(r) THEN [r EXCEPT !.val = nv]
             ELSE decodeItems(et, i + 1, nv, r.rest, order, size)

\* what the backing array of the slice v holds, from its first element on
Backing(v) == v.e \o v.spare

\* len(v) as a count
SliceLen(v) == IF "long" \in DOMAIN v THEN v.long ELSE <<0, Len(v.e)>>

\* s without the elements z at its end
RECURSIVE Trim(_, _)
Trim(s, z) ==
    IF s = <<>> THEN <<>>
    ELSE IF s[Len(s)] = z THEN Trim(SubSeq(s, 1, Len(s) - 1), z)
    ELSE s

\* decodeSliceOrArray(val, from, order, size), size > 0.  A slice goes
\* through val.Grow(size) and val.SetLen(size): Grow panics when len + size
\* overflows, growslice when len + size elements are more than maxAlloc
\* bytes; what the backing array held stays, in the slice and beyond its
\* length, so the elements SetLen adds are the stale ones as far as there
\* are any and zero after them.  An array is used as it is.
decodeSliceOrArray(t, old, from, order, size) ==
    IF t.k = "slice"
    THEN LET room == Plus(Digits(SliceLen(old)), Digits(size))
             arr  == Backing(old)
         IN  IF room[1] >= 32768
             THEN Panic("reflect.Value.Grow: slice overflow", old, from)
             ELSE IF Greater(Times(room, SizeOf(t.elem)), MaxAlloc)
             THEN Panic("growslice: len out of range", old, from)
             ELSE IF Small(size)
             THEN LET n     == size[2]
                      grown == IF n <= Len(arr) THEN SubSeq(arr, 1, n)
                               ELSE arr \o [i \in 1..(n - Len(arr)) |-> Zero(t.elem)]
                      left  == Trim(SubSeq(arr, n + 1, Len(arr)), Zero(t.elem))
                      r     == decodeItems(t.elem, 1, grown, from, order, n)
                  IN  [r EXCEPT !.val = [nil |-> FALSE, e |-> r.val, spare |-> left]]
             ELSE LET r == decodeItems(t.elem, 1, arr, from, order, 2147483647)
                  IN  [r EXCEPT !.val = [nil |-> FALSE, e |-> r.val, spare |-> <<>>,
                                         long |-> size],
                                !.big = TRUE]
    ELSE decodeItems(t.elem, 1, old, from, order, size[2])

\* the field loop of the struct case from field i on, with the length
\* table; an error is wrapped with the field's name, a panic is not
decodeFields(t, i, vals, from, order, lens) ==
    IF i > Len(t.fields) THEN Ok(vals, from)
    ELSE LET f == t.fields[i]
         IN  IF skipped(f) THEN decodeFields(t, i + 1, vals, from, order, lens)
             ELSE LET r  == decode(f.type, vals[i], from, order,
                                   IF f.name \in DOMAIN lens THEN <<lens[f.name]>> ELSE NoSize)
                      nv == [vals EXCEPT ![i] = r.val]
                      s  == sizeOfAnotherField(f.type, r.val, f.tag)
                  IN  IF r.crash # "" THEN [r EXCEPT !.val = nv]
                      ELSE IF r.err
                      THEN [r EXCEPT !.trace = <<f.name>> \o r.trace, !.val = nv]
                      ELSE decodeFields(t, i + 1, nv, r.rest, order,
                                        IF s.ok THEN PutLen(lens, s.target, s.size) ELSE lens)

\* make([]byte, n) and io.ReadFull, n > 0: the n bytes read, or the error
\* `why` with the destination as it was.  makeslice panics on a length
\* beyond maxAlloc; a buffer of 2^31 bytes or more is longer than any
\* source held here, which ReadFull then drains.
decodeBytes(old, from, n, why) ==
    IF Greater(Digits(n), MaxAlloc) THEN Panic("makeslice: len out of range", old, from)
    ELSE IF ~Small(n) THEN [Fail(why, old, <<>>) EXCEPT !.big = TRUE]
    ELSE LET r == ReadFull(from, n[2])
         IN  IF r.err THEN Fail(why, old, r.rest) ELSE Ok(r.data, r.rest)

\* val.SetBytes(buf) after a read r that succeeded
AsSlice(r) ==
    IF Stopped(r) THEN r
    ELSE [r EXCEPT !.val = [nil |-> FALSE, e |-> r.val, spare |-> <<>>]]

\* decodeString taking a missing size for an empty string
decodeString_UnsizedIsEmpty(old, from, size) ==
    IF size = NoSize \/ ~Positive(size[1]) THEN Ok(old, from)
    ELSE decodeBytes(old, from, size[1], "can't decode a slice")

\* the string case of decode
decodeString(old, from, size) ==
    IF size = NoSize THEN Fail("size of slice not specified", old, from)
    ELSE IF ~Positive(size[1]) THEN Ok(old, from)
    ELSE decodeBytes(old, from, size[1], "can't decode a slice")

\* the slice case returning on a size of 0 as the string case does, the
\* slice left as it was
decodeSlice_KeepsOnEmpty(t, old, from, order, size) ==
    IF size = NoSize THEN Fail("size of slice not specified", old, from)
    ELSE IF ~Positive(size[1]) THEN Ok(old, from)
    ELSE IF t.elem.k # "uint8"
    THEN decodeSliceOrArray(t, old, from, order, size[1])
    ELSE AsSlice(decodeBytes(old, from, size[1], "can't decode a slice"))

\* the slice case of decode: on *size <= 0 the slice is set to
\* reflect.MakeSlice(t, 0, 0)
decodeSlice(t, old, from, order, size) ==
    IF size = NoSize THEN Fail("size of slice not specified", old, from)
    ELSE IF ~Positive(size[1])
    THEN Ok([nil |-> FALSE, e |-> <<>>, spare |-> <<>>], from)
    ELSE IF t.elem.k # "uint8"
    THEN decodeSliceOrArray(t, old, from, order, size[1])
    ELSE AsSlice(decodeBytes(old, from, size[1], "can't decode a slice"))

\* what reflect.Copy panics with when the elements of the array are of a
\* named byte-kinded type (the model's one is Tiny) and not plain bytes
CopyMismatch == "reflect.Copy: Tiny != uint8"

\* the array case of decode: element by element, or, when the element kind
\* is uint8, make, io.ReadFull and reflect.Copy(val, buf), which panics
\* once the bytes are read unless the element type is uint8 itself
decodeArray(t, old, from, order) ==
    IF t.elem.k # "uint8"
    THEN decodeSliceOrArray(t, old, from, order, <<0, t.len>>)
    ELSE LET r == decodeBytes(old, from, <<0, t.len>>, "can't decode an array")
         IN  IF ~Stopped(r) /\ t.elem.custom
             THEN Panic(CopyMismatch, old, r.rest)
             ELSE r

\* the pointer case of decode: a new referent is allocated and decoded into
decodePointer(t, old, from, order, size) ==
    LET r == decode(t.elem, Zero(t.elem), from, order, size)
    IN  [r EXCEPT !.val = <<r.val>>]

\* the Interface case (`// ignored`) and every kind the switch has no case
\* for: nothing is read, val is not touched, decode returns nil
ignored(t, old, from) == Ok(old, from)

\* decode(val, from, order, size): `old` is what val holds on entry
decode(t, old, from, order, size) ==
    IF t.custom THEN customDecode(t, old, from, order)
    ELSE CASE t.k \in NumericKinds -> decodeNumeric(old, from, order, FixedKind(t.k))
           [] t.k = "string" -> decodeString(old, from, size)
           [] t.k = "slice"  -> decodeSlice(t, old, from, order, size)
           [] t.k = "array"  -> decodeArray(t, old, from, order)
           [] t.k = "struct" -> decodeFields(t, 1, old, from, order, NoLens)
           [] t.k = "ptr"    -> decodePointer(t, old, from, order, size)
           [] OTHER          -> ignored(t, old, from)

\* ------------------------------------------------- the types of the callers
\* The tests' types (String, Slice[String], Custom, PtrWrapper, Inner, parts
\* of Header) and the shapes the documentation of Decode speaks of.
String  == StructOf(<<F("Len", LenOf("Data"), Num("uint32")), F("Data", NoTag, Str)>>)
Inner   == StructOf(<<F("Val", NoTag, Num("int"))>>)
Custom  == [k |-> "struct", custom |-> TRUE,
            fields |-> <<F("Optional", NoTag, PtrTo(Num("float64")))>>]
\* type Tiny uint8 with the Encode/Decode hooks
Tiny    == [k |-> "uint8", custom |-> TRUE]

TypeNames ==
    {"String", "SliceString", "ArrayString", "Payload", "Untagged", "Late",
     "TopString", "Header", "PtrWrapper", "Custom", "HasCustom", "CustomSlice",
     "TinySlice", "Down", "Up", "SignedLen", "SignedStr", "BigLen", "Numerics",
     "Uint16", "PtrString", "Unsupported", "WordLen", "TinyArray"}

T(name) ==
    CASE name = "String"      -> String
      [] name = "SliceString" ->
            StructOf(<<F("Len", LenOf("Data"), Num("uint32")),
                       F("Data", NoTag, SliceOf(String))>>)
      [] name = "ArrayString" -> ArrayOf(2, String)
      [] name = "Payload"     ->
            StructOf(<<F("Size", LenOf("Payload"), Num("uint32")),
                       F("Payload", NoTag, SliceOf(Num("uint8")))>>)
      [] name = "Untagged"    ->
            StructOf(<<F("Size", NoTag, Num("uint32")),
                       F("Payload", NoTag, SliceOf(Num("uint8")))>>)
      [] name = "Late"        ->
            StructOf(<<F("Kind", NoTag, Num("uint8")),
                       F("Data", NoTag, Str),
                       F("Len", LenOf("Data"), Num("uint8"))>>)
      [] name = "TopString"   -> Str
      [] name = "Header"      ->
            StructOf(<<F("Version", NoTag, Num("uint8")),
                       F("TagIgnored", Excluded, Num("int64")),
                       F("Array", NoTag, ArrayOf(2, Num("uint8"))),
                       F("InterfaceIgnore", NoTag, Iface),
                       Unexported("privateIgnored", Num("int64")),
                       F("Bool", NoTag, Num("bool"))>>)
      [] name = "PtrWrapper"  ->
            StructOf(<<F("PtrStruct", NoTag, PtrTo(Inner)),
                       F("PtrSliceLen", LenOf("PtrSlice"), PtrTo(Num("int64"))),
                       F("PtrSlice", NoTag, PtrTo(SliceOf(PtrTo(Num("int64")))))>>)
      [] name = "Custom"      -> Custom
      [] name = "HasCustom"   ->
            StructOf(<<F("Custom", NoTag, Custom),
                       F("Ptr", NoTag, PtrTo(Custom)),
                       F("Arr", NoTag, ArrayOf(1, Custom)),
                       F("After", NoTag, Num("uint16"))>>)
      [] name = "CustomSlice" ->
            StructOf(<<F("Len", LenOf("Data"), Num("uint8")),
                       F("Data", NoTag, SliceOf(Custom))>>)
      [] name = "TinySlice"   ->
            StructOf(<<F("One", NoTag, Tiny),
                       F("Len", LenOf("Data"), Num("uint8")),
                       F("Data", NoTag, SliceOf(Tiny))>>)
      [] name = "Down"        ->
            StructOf(<<F("Len", LenOf("Data"), Num("uint8")),
                       F("In", NoTag, StructOf(<<F("Data", NoTag, Str)>>))>>)
      [] name = "Up"          ->
            StructOf(<<F("In", NoTag, String), F("Data", NoTag, Str)>>)
      [] name = "SignedLen"   ->
            StructOf(<<F("Len", LenOf("Data"), Num("int8")),
                       F("Data", NoTag, SliceOf(Num("uint8")))>>)
      [] name = "SignedStr"   ->
            StructOf(<<F("Len", LenOf("Data"), Num("int16")),
                       F("Data", NoTag, Str)>>)
      [] name = "BigLen"      ->
            StructOf(<<F("Len", LenOf("Data"), Num("uint64")),
                       F("Data", NoTag, SliceOf(Num("uint8")))>>)
      [] name = "Numerics"    ->
            StructOf(<<F("Int", NoTag, Num("int")),
                       F("Int16", NoTag, Num("int16")),
                       F("Uint32", NoTag, Num("uint32")),
                       F("Uint64", NoTag, Num("uint64")),
                       F("Float32", NoTag, Num("float32"))>>)
      [] name = "Uint16"      -> Num("uint16")
      [] name = "PtrString"   ->
            StructOf(<<F("Len", LenOf("Data"), PtrTo(PtrTo(Num("uint8")))),
                       F("Data", NoTag, PtrTo(Str))>>)
      [] name = "Unsupported" ->
            StructOf(<<F("Before", NoTag, Num("uint8")),
                       F("InterfaceIgnore", NoTag, Iface),
                       F("Table", NoTag, MapType),
                       F("Ratio", NoTag, Complex),
                       F("After", NoTag, Num("uint16"))>>)
      [] name = "WordLen"     ->
            StructOf(<<F("N", LenOf("Data"), Uintptr),
                       F("Data", NoTag, SliceOf(Num("uint8")))>>)
      [] name = "TinyArray"   ->
            StructOf(<<F("Before", NoTag, Num("uint8")),
                       F("Arr", NoTag, ArrayOf(2, Tiny)),
                       F("After", NoTag, Num("uint8"))>>)
      [] name = "PaddedItems" ->
            StructOf(<<F("Len", LenOf("Data"), Num("uint64")),
                       F("Data", NoTag,
                         SliceOf(StructOf(<<F("A", NoTag, Num("uint64")),
                                            F("B", NoTag, StructOf(<<>>))>>)))>>)
      [] name = "BigItems"    ->
            StructOf(<<F("Len", LenOf("Data"), Num("uint64")),
                       F("Data", NoTag, SliceOf(Num("uint16")))>>)
      [] name = "Request"     ->
            StructOf(<<F("MessageSize", NoTag, Num("uint32")),
                       F("Custom", NoTag, Custom),
                       F("Header", NoTag,
                         StructOf(<<F("Version", NoTag, Num("uint8")),
                                    F("CorrelationID", NoTag, Num("int32")),
                                    F("ClientID", NoTag, String),
                                    F("Bool", NoTag, Num("bool"))>>))>>)
      [] name = "Words"       ->
            StructOf(<<F("Int8", NoTag, Num("int8")),
                       F("Int16", NoTag, Num("int16")),
                       F("Int32", NoTag, Num("int32")),
                       F("Uint16", NoTag, Num("uint16")),
                       F("Uint32", NoTag, Num("uint32")),
                       F("Uint64", NoTag, Num("uint64"))>>)

\* ------------------------------------------------ the values of the callers
\* the n bytes c, c+1, ...
Run(c, n) == [i \in 1..n |-> c + i - 1]
Texts   == {Run(97, n) : n \in 0..MaxLen} \cup {Run(109, 1)}
Buffers == {Run(c, n) : c \in {0, 250}, n \in 0..MaxLen}

\* what a caller stores in a plain numeric field; the floats are 0 and the
\* tests' float32(-11.1111) (bits C131C711) and float64(777.0) (bits
\* 4088480000000000)
DataVals(k) ==
    CASE k = "bool" -> BOOLEAN
      [] k \in SignedKinds -> {Val(k, 0), Val(k, -2)}
      [] k = "uint8" -> {0, 7}
      [] k \in {"uint64", "uint"} -> {Wide(0), Wide(-1)}
      [] k = "float32" -> {0, -1053702383}
      [] k = "float64" -> {Wide(0), <<1082673152, 0>>}
      [] OTHER -> {0, 258}

\* what a caller stores in a designator: a count, or (when free) a value
\* that is no count of anything the caller built
LenVals(k, free) ==
    (0..MaxLen) \cup
    (IF ~free THEN {}
     ELSE CASE k \in SignedKinds -> {-1}
            [] k \in {"uint64", "uint"} -> {-1}
            [] k = "uint8" -> {200}
            [] k = "uintptr" -> {}
            [] OTHER -> {258})

\* the length of the value v of a designator's target, through pointers
RECURSIVE TargetLen(_, _)
TargetLen(t, v) ==
    CASE t.k = "string" -> Len(v)
      [] t.k = "slice"  -> Len(v.e)
      [] t.k = "ptr"    -> IF v = <<>> THEN 0 ELSE TargetLen(t.elem, v[1])
      [] OTHER          -> 0

\* the count a designator's value v stands for, through pointers
RECURSIVE CountOf(_, _)
CountOf(t, v) ==
    IF t.k = "ptr" THEN (IF v = <<>> THEN Wide(0) ELSE CountOf(t.elem, v[1]))
    ELSE IntOf(FixedKind(t.k), v)

IsDesignator(f) == Len(f.tag) = 2 /\ f.tag[1] = "lenof"
FieldIndex(t, name) == {j \in 1..Len(t.fields) : t.fields[j].name = name}

\* every designator of v, at every depth the default traversal reaches,
\* holds the actual length of its target
RECURSIVE Consistent(_, _)
Consistent(t, v) ==
    IF t.custom THEN TRUE
    ELSE CASE t.k = "struct" ->
                /\ \A i \in 1..Len(t.fields) :
                      skipped(t.fields[i]) \/ Consistent(t.fields[i].type, v[i])
                /\ \A i \in 1..Len(t.fields) :
                      IsDesignator(t.fields[i]) =>
                         \A j \in FieldIndex(t, t.fields[i].tag[2]) :
                            CountOf(t.fields[i].type, v[i])
                                = <<0, TargetLen(t.fields[j].type, v[j])>>
           [] t.k = "slice" -> \A i \in 1..Len(v.e) : Consistent(t.elem, v.e[i])
           [] t.k = "array" -> \A i \in 1..Len(v) : Consistent(t.elem, v[i])
           [] t.k = "ptr"   -> v = <<>> \/ Consistent(t.elem, v[1])
           [] OTHER -> TRUE

\* sequences of at most n elements of S
RECURSIVE SeqsUpTo(_, _)
SeqsUpTo(S, n) ==
    IF n = 0 THEN {<<>>}
    ELSE LET shorter == SeqsUpTo(S, n - 1)
         IN  shorter \cup {Append(s, x) : s \in {q \in shorter : Len(q) = n - 1}, x \in S}

\* The values of type t a caller builds.  role is "data", "len" (a
\* designator holding a count) or "free" (a designator holding anything);
\* below the top level every struct is consistent.
RECURSIVE Gen(_, _)
RECURSIVE Prod(_, _, _)
Prod(t, i, free) ==
    IF i = 0 THEN {<<>>}
    ELSE LET f == t.fields[i]
             role == IF IsDesignator(f) THEN (IF free THEN "free" ELSE "len") ELSE "data"
         IN  {Append(p, x) : p \in Prod(t, i - 1, free), x \in Gen(f.type, role)}

Gen(t, role) ==
    CASE t.k \in NumericKinds ->
            IF t.custom THEN {0, 7}
            ELSE IF role = "data" THEN DataVals(t.k)
            ELSE {Val(t.k, n) : n \in LenVals(t.k, role = "free")}
      [] t.k = "uintptr" -> {Wide(n) : n \in LenVals(t.k, role = "free")}
      [] t.k = "string" -> Texts
      [] t.k = "slice"  ->
            {Zero(t)} \cup
            {[nil |-> FALSE, e |-> s, spare |-> <<>>] :
                s \in IF t.elem.k = "uint8" THEN Buffers
                      ELSE SeqsUpTo(Gen(t.elem, "data"), MaxLen)}
      [] t.k = "array"  ->
            IF t.elem.k = "uint8" THEN {Run(c, t.len) : c \in {0, 250}}
            ELSE {s \in SeqsUpTo(Gen(t.elem, "data"), t.len) : Len(s) = t.len}
      [] t.k = "struct" ->
            {v \in Prod(t, Len(t.fields), FALSE) : Consistent(t, v)}
      [] t.k = "ptr"    -> {<<>>} \cup {<<x>> : x \in Gen(t.elem, role)}
      [] t.k \in {"iface", "map"} -> {<<>>, <<30>>}
      [] t.k = "complex128" -> {0, 5}

\* the five-byte payload of the documentation's example
Example == <<5, [nil |-> FALSE, e |-> Run(0, 5), spare |-> <<>>]>>

\* the values the caller of Encode passes for the type called name
Inputs(name) ==
    (IF T(name).k = "struct" THEN Prod(T(name), Len(T(name).fields), TRUE)
     ELSE Gen(T(name), "data"))
    \cup (IF name = "Payload" THEN {Example} ELSE {})

\* what a destination that has been used before holds: every field is set,
\* every container has one element (a slice was longer once: its backing
\* array holds one more), every pointer points somewhere
RECURSIVE Junk(_)
Junk(t) ==
    CASE t.k = "bool"   -> TRUE
      [] t.k \in NumericKinds \ {"bool"} -> Val(t.k, 9)
      [] t.k = "uintptr" -> Wide(1)
      [] t.k = "string" -> <<122>>
      [] t.k = "slice"  ->
            [nil |-> FALSE, e |-> <<Junk(t.elem)>>, spare |-> <<Junk(t.elem)>>]
      [] t.k = "array"  -> [i \in 1..t.len |-> Junk(t.elem)]
      [] t.k = "struct" -> [i \in 1..Len(t.fields) |-> Junk(t.fields[i].type)]
      [] t.k = "ptr"    -> <<Junk(t.elem)>>
      [] t.k \in {"iface", "map"} -> <<31>>
      [] t.k = "complex128" -> 9

\* ------------------------------------------------------- Encoder / Decoder
\* Decoder.Decode running the traversal before it looks at its target
Decode_ChecksLate(obj, t, old, from, order) ==
    LET r == decode(t, old, from, order, NoSize)
    IN  CASE obj = "value" -> Fail("obj must be a pointer", old, r.rest)
          [] obj = "nil"   -> Fail("obj must be a valid pointer, got nil", old, r.rest)
          [] OTHER         -> r

\* Decoder.Decode over a reader that drains its source: what the call does
\* not use is lost
Decode_Drains(obj, t, old, from, order) ==
    LET r == decode(t, old, from, order, NoSize)
    IN  CASE obj = "value" -> Fail("obj must be a pointer", old, from)
          [] obj = "nil"   -> Fail("obj must be a valid pointer, got nil", old, from)
          [] OTHER         -> [r EXCEPT !.rest = <<>>]

\* Decoder.Decode giving the destination back as it was when it fails
Decode_RollsBack(obj, t, old, from, order) ==
    LET r == decode(t, old, from, order, NoSize)
    IN  CASE obj = "value" -> Fail("obj must be a pointer", old, from)
          [] obj = "nil"   -> Fail("obj must be a valid pointer, got nil", old, from)
          [] OTHER         -> IF Stopped(r) THEN [r EXCEPT !.val = old] ELSE r

\* Decoder.Decode(obj, order): obj is the caller's variable passed by value
\* ("value"), a nil pointer ("nil") or a pointer to the variable
\* ("pointer"); old is what the variable holds, from the unread bytes
Decode(obj, t, old, from, order) ==
    CASE obj = "value" -> Fail("obj must be a pointer", old, from)
      [] obj = "nil"   -> Fail("obj must be a valid pointer, got nil", old, from)
      [] OTHER         -> decode(t, old, from, order, NoSize)

\* Unmarshal(data, obj, order), obj as in Decode: Decode over
\* bytes.NewReader(data); what the reader has left is dropped with it
Unmarshal(obj, t, old, data, order) ==
    [Decode(obj, t, old, data, order) EXCEPT !.rest = <<>>]

\* Encoder.Encode(data, order): the bytes written to the sink
Encode(t, data, order) == encode(t, data, order)

\* ------------------------------------------------------------ the machine
VARIABLES
    typ,    \* the name of the Go type the caller encodes and decodes
    order,  \* the byte order the caller passes to every call
    buf,    \* the unread bytes of the bytes.Buffer the Encoder writes to and
            \* the Decoder reads from
    dst,    \* the variable the caller decodes into
    sent,   \* the values passed to Encode so far
    pending, \* the number of encoded values the caller has not decoded yet
    last    \* the last call: op, whether it returned an error, the error's
            \* trace, the panic or fatal error it ended in ("" when it
            \* returned), the buffer and the destination before it, the
            \* bytes it wrote, and the call before it

vars == <<typ, order, buf, dst, sent, pending, last>>

Call(op, r, before, into, wrote) ==
    [op |-> op, err |-> r.err, trace |-> r.trace, crash |-> r.crash,
     before |-> before, into |-> into, wrote |-> wrote, prev |-> last.op]

\* no call has ended the program
Running == last.crash = ""

Init ==
    /\ typ \in TypeNames
    /\ order \in {"BE", "LE"}
    /\ buf = <<>>
    /\ dst = Zero(T(typ))
    /\ sent = <<>>
    /\ pending = 0
    /\ last = [op |-> "new", err |-> FALSE, trace |-> <<>>, crash |-> "",
               before |-> <<>>, into |-> Zero(T(typ)), wrote |-> <<>>,
               prev |-> "new"]

\* NewEncoder(buf).Encode(v, order)
DoEncode(v) ==
    /\ sent = <<>>
    /\ LET out == Encode(T(typ), v, order)
       IN  /\ buf' = buf \o out
           /\ last' = Call("encode", Ok(v, buf), buf, dst, out)
    /\ sent' = Append(sent, v)
    /\ pending' = pending + 1
    /\ UNCHANGED <<typ, order, dst>>

\* NewDecoder(buf).Decode(&x, order), x holding d before the call, on
\* whatever the buffer holds: an encoding, what a value with a wrong
\* designator left behind, or nothing
DoDecode(d) ==
    /\ sent # <<>>
    /\ Running
    /\ pending' = IF pending > 0 THEN pending - 1 ELSE 0
    /\ \E r \in Outcomes(Decode("pointer", T(typ), d, buf, order)) :
           /\ dst' = r.val
           /\ buf' = r.rest
           /\ last' = Call("decode", r, buf, d, <<>>)
    /\ UNCHANGED <<typ, order, sent>>

\* Unmarshal(buf.Bytes(), &x, order), x being the caller's variable as it
\* is: the bytes are read through a reader of their own, the buffer keeps
\* them
DoUnmarshal ==
    /\ sent # <<>>
    /\ Running
    /\ \E r \in Outcomes(Unmarshal("pointer", T(typ), dst, buf, order)) :
           /\ dst' = r.val
           /\ last' = Call("unmarshal", r, buf, dst, <<>>)
    /\ UNCHANGED <<typ, order, buf, sent, pending>>

\* NewDecoder(buf).Decode(x, order): the target is not a pointer
DoDecodeValue ==
    /\ sent # <<>>
    /\ Running
    /\ LET r == Decode("value", T(typ), dst, buf, order)
       IN  /\ dst' = r.val
           /\ buf' = r.rest
           /\ last' = Call("decode-value", r, buf, dst, <<>>)
    /\ UNCHANGED <<typ, order, sent, pending>>

\* NewDecoder(buf).Decode((*T)(nil), order)
DoDecodeNil ==
    /\ sent # <<>>
    /\ Running
    /\ LET r == Decode("nil", T(typ), dst, buf, order)
       IN  /\ dst' = r.val
           /\ buf' = r.rest
           /\ last' = Call("decode-nil", r, buf, dst, <<>>)
    /\ UNCHANGED <<typ, order, sent, pending>>

\* Unmarshal(buf.Bytes(), x, order): the target is not a pointer
DoUnmarshalValue ==
    /\ sent # <<>>
    /\ Running
    /\ LET r == Unmarshal("value", T(typ), dst, buf, order)
       IN  /\ dst' = r.val
           /\ last' = Call("unmarshal-value", r, buf, dst, <<>>)
    /\ UNCHANGED <<typ, order, buf, sent, pending>>

\* Unmarshal(buf.Bytes(), (*T)(nil), order)
DoUnmarshalNil ==
    /\ sent # <<>>
    /\ Running
    /\ LET r == Unmarshal("nil", T(typ), dst, buf, order)
       IN  /\ dst' = r.val
           /\ last' = Call("unmarshal-nil", r, buf, dst, <<>>)
    /\ UNCHANGED <<typ, order, buf, sent, pending>>

Next ==
    \/ sent = <<>> /\ \E v \in Inputs(typ) : DoEncode(v)
    \/ \E d \in {Zero(T(typ)), Junk(T(typ))} : DoDecode(d)
    \/ DoUnmarshal

Spec == Init /\ [][Next]_vars

\* ----------------------------------------------- targets that are no pointer
\* The caller that also passes Decode or Unmarshal a value, or a nil
\* pointer, in place of a pointer to its variable, between the calls of Next.
TargetTypes ==
    {"String", "Payload", "Late", "TopString", "Header", "HasCustom", "Uint16",
     "PtrString"}

TargetInit == Init /\ typ \in TargetTypes

TargetNext ==
    \/ Next
    \/ DoDecodeValue
    \/ DoDecodeNil
    \/ DoUnmarshalValue
    \/ DoUnmarshalNil

SpecTargets == TargetInit /\ [][TargetNext]_vars

\* ------------------------------------------------- one stream, many values
\* The benchmark's loop: values are encoded to one buffer, each with
\* Encode, and decoded from it one by one, each into a new variable.
StreamTypes == {"String", "Payload", "PtrString", "Custom"}

\* the values the loop encodes: their designators hold the actual lengths
StreamInputs(name) == {v \in Inputs(name) : Consistent(T(name), v)}

StreamInit == Init /\ typ \in StreamTypes

\* NewEncoder(buf).Encode(v, order), after any number of values
StreamEncode(v) ==
    /\ Len(sent) < MaxValues
    /\ LET out == Encode(T(typ), v, order)
       IN  /\ buf' = buf \o out
           /\ last' = Call("encode", Ok(v, buf), buf, dst, out)
    /\ sent' = Append(sent, v)
    /\ pending' = pending + 1
    /\ UNCHANGED <<typ, order, dst>>

\* var x T; NewDecoder(buf).Decode(&x, order), while a value is waiting
StreamDecode ==
    /\ pending > 0
    /\ DoDecode(Zero(T(typ)))

StreamNext ==
    \/ \E v \in StreamInputs(typ) : StreamEncode(v)
    \/ StreamDecode

SpecStream == StreamInit /\ [][StreamNext]_vars

\* ------------------------------------------------- a source that ends early
\* A caller that decodes, once, what Encode wrote for a value or only the
\* first n bytes of it.  The designators of the value hold the actual
\* lengths; those of the types in FreeCut hold these or anything else, and
\* a uint64 designator also a count no allocation can serve (2^62), one
\* only a large allocation can (2^32), and one that is within maxAlloc for
\* elements of up to 15 bytes and beyond it for larger ones (2^44 + 1).
CutTypes ==
    {"String", "SliceString", "ArrayString", "PtrWrapper", "PtrString",
     "HasCustom", "CustomSlice", "Header", "Request", "Late", "BigLen",
     "BigItems", "PaddedItems", "TinyArray"}

FreeCut == {"String", "Late", "BigLen", "BigItems", "PaddedItems"}

Oversized == {<<1073741824, 0>>, <<1, 0>>, <<4096, 1>>}

CutInputs(name) ==
    IF name \in FreeCut
    THEN Inputs(name) \cup
         (IF T(name).fields[1].type.k = "uint64"
          THEN {<<n, x>> : n \in Oversized, x \in Gen(T(name).fields[2].type, "data")}
          ELSE {})
    ELSE StreamInputs(name)

CutInit ==
    /\ typ \in CutTypes
    /\ order \in {"BE", "LE"}
    /\ buf = <<>>
    /\ dst = Zero(T(typ))
    /\ sent = <<>>
    /\ pending = 0
    /\ last = [op |-> "new", err |-> FALSE, trace |-> <<>>, crash |-> "",
               before |-> <<>>, into |-> Zero(T(typ)), wrote |-> <<>>,
               prev |-> "new"]

\* the source ends after n bytes
Cut(n) ==
    /\ last.op = "encode"
    /\ n < Len(buf)
    /\ buf' = Take(buf, n)
    /\ last' = [last EXCEPT !.op = "cut", !.prev = "encode"]
    /\ UNCHANGED <<typ, order, dst, sent, pending>>

CutNext ==
    \/ sent = <<>> /\ \E v \in CutInputs(typ) : DoEncode(v)
    \/ \E n \in 0..(Len(buf) - 1) : Cut(n)
    \/ last.op \in {"encode", "cut"}
       /\ \E d \in {Zero(T(typ)), Junk(T(typ))} : DoDecode(d)

SpecCut == CutInit /\ [][CutNext]_vars

\* ------------------------------------------- one order in, the other out
\* A caller that encodes with one byte order and decodes with the other.
\* The 8-byte values it uses are 0 and the all-ones value.
Opposite(o) == IF o = "BE" THEN "LE" ELSE "BE"

OrderTypes == {"Uint16", "Words"}

OrderInit ==
    /\ typ \in OrderTypes
    /\ order \in {"BE", "LE"}
    /\ buf = <<>>
    /\ dst = Zero(T(typ))
    /\ sent = <<>>
    /\ pending = 0
    /\ last = [op |-> "new", err |-> FALSE, trace |-> <<>>, crash |-> "",
               before |-> <<>>, into |-> Zero(T(typ)), wrote |-> <<>>,
               prev |-> "new"]

\* NewDecoder(buf).Decode(&x, the other order)
CrossDecode ==
    /\ pending > 0
    /\ Running
    /\ pending' = pending - 1
    /\ \E r \in Outcomes(Decode("pointer", T(typ), dst, buf, Opposite(order))) :
           /\ dst' = r.val
           /\ buf' = r.rest
           /\ last' = Call("decode-cross", r, buf, dst, <<>>)
    /\ UNCHANGED <<typ, order, sent>>

OrderNext ==
    \/ sent = <<>> /\ \E v \in Inputs(typ) : DoEncode(v)
    \/ CrossDecode

SpecOrders == OrderInit /\ [][OrderNext]_vars

\* =================================================================== claims
\* a field the claims call excluded (tagged sbin:"-") or not exported
OffWire(f) == f.tag = <<"-">> \/ ~f.exported

\* the consumed bytes of the last call
Consumed == Len(last.before) - Len(buf)

\* a non-skipped integer field (or pointer to one) tagged lenof:<name>, the
\* only kind of field that records a length; a uintptr is one to reflect
Records(f, name) ==
    LET RECURSIVE IsInt(_)
        IsInt(t) == IF t.k = "ptr" THEN IsInt(t.elem)
                    ELSE t.k \in SignedKinds \cup UnsignedKinds \cup {"uintptr"}
    IN  ~OffWire(f) /\ IsDesignator(f) /\ f.tag[2] = name /\ IsInt(f.type)

\* a field of a shape the traversal has no rule for
NoRule(f) ==
    /\ ~OffWire(f) /\ ~f.type.custom
    /\ f.type.k \in {"iface", "map", "complex128", "uintptr"}

\* every string, byte buffer and slice of type t that the default traversal
\* reaches is a struct field (directly or behind pointers) with an earlier
\* sibling that is encoded and records its length; hasLen: t itself is such
\* a field
RECURSIVE Sized(_, _)
Sized(t, hasLen) ==
    IF t.custom THEN TRUE
    ELSE CASE t.k = "string" -> hasLen
           [] t.k = "slice"  -> hasLen /\ (t.elem.k = "uint8" \/ Sized(t.elem, FALSE))
           [] t.k = "array"  -> t.elem.k = "uint8" \/ Sized(t.elem, FALSE)
           [] t.k = "ptr"    -> Sized(t.elem, hasLen)
           [] t.k = "struct" ->
                \A i \in 1..Len(t.fields) :
                    OffWire(t.fields[i]) \/
                    Sized(t.fields[i].type,
                          \E j \in 1..(i - 1) :
                              /\ Records(t.fields[j], t.fields[i].name)
                              /\ ~NoRule(t.fields[j]))
           [] OTHER -> TRUE

\* the decode of the value v of type t reaches an array of a byte-kinded
\* type with the hooks, which reflect.Copy refuses
RECURSIVE Copied(_, _)
Copied(t, v) ==
    IF t.custom THEN FALSE
    ELSE CASE t.k = "array"  ->
                IF t.elem.k = "uint8" THEN t.elem.custom
                ELSE \E i \in 1..Len(v) : Copied(t.elem, v[i])
           [] t.k = "slice"  ->
                t.elem.k # "uint8" /\ \E i \in 1..Len(v.e) : Copied(t.elem, v.e[i])
           [] t.k = "struct" ->
                \E i \in 1..Len(t.fields) :
                    ~OffWire(t.fields[i]) /\ Copied(t.fields[i].type, v[i])
           [] t.k = "ptr"    -> Copied(t.elem, IF v = <<>> THEN Zero(t.elem) ELSE v[1])
           [] OTHER -> FALSE

\* v as a round trip is said to return it: every nil pointer replaced by a
\* pointer to a zero value, every skipped or interface field zero; with
\* emptied, every nil slice replaced by an empty one as well.  Values of
\* custom types are what their hooks make of them and stay as they are.
RECURSIVE Normal(_, _, _)
Normal(t, v, emptied) ==
    IF t.custom THEN v
    ELSE CASE t.k = "slice"  ->
                [nil   |-> IF emptied THEN FALSE ELSE v.nil,
                 e     |-> IF t.elem.k = "uint8" THEN v.e
                           ELSE [i \in 1..Len(v.e) |-> Normal(t.elem, v.e[i], emptied)],
                 spare |-> <<>>]
           [] t.k = "array"  ->
                IF t.elem.k = "uint8" THEN v
                ELSE [i \in 1..Len(v) |-> Normal(t.elem, v[i], emptied)]
           [] t.k = "struct" ->
                [i \in 1..Len(t.fields) |->
                    IF OffWire(t.fields[i]) THEN Zero(t.fields[i].type)
                    ELSE Normal(t.fields[i].type, v[i], emptied)]
           [] t.k = "ptr"    ->
                <<Normal(t.elem, IF v = <<>> THEN Zero(t.elem) ELSE v[1], emptied)>>
           [] t.k \in {"iface", "map", "complex128", "uintptr"} -> Zero(t)
           [] OTHER -> v

\* the last call decoded, into a fresh zero destination, exactly the bytes
\* Encode wrote for a value whose designators hold the actual lengths
RoundTripCase ==
    /\ last.op = "decode"
    /\ last.into = Zero(T(typ))
    /\ Len(sent) = 1
    /\ last.before = Encode(T(typ), sent[1], order)
    /\ Consistent(T(typ), sent[1])

\* C1 as claimed: the round trip returns v, except that nil pointers come
\* back as pointers to zero values and skipped / interface fields as zero.
C1_RoundTripAsClaimed ==
    RoundTripCase => ~last.err /\ dst = Normal(T(typ), sent[1], FALSE)

\* C1 (amended): for a value whose strings, byte buffers and slices are all
\* struct fields (directly or behind pointers) with an earlier sibling
\* designator of an encoded integer type holding their actual length,
\* decoding the bytes of Encode(v)
\* into a fresh destination with the same order succeeds, consumes exactly
\* those bytes and yields v with every nil pointer replaced by a pointer to a
\* zero value, every nil slice replaced by an empty non-nil slice and every
\* skipped or interface field zero.  The exception is a value with an array
\* of a byte-kinded type that has the hooks: Decode panics in reflect.Copy.
C1_RoundTrip ==
    RoundTripCase /\ Sized(T(typ), FALSE) =>
        IF Copied(T(typ), sent[1])
        THEN last.crash = CopyMismatch
        ELSE /\ ~last.err /\ last.crash = ""
             /\ buf = <<>> /\ dst = Normal(T(typ), sent[1], TRUE)

\* a slice of structs that went through the round trip with a nil pointer,
\* a nil slice and a multi-byte count in it
C1_Witness ==
    /\ RoundTripCase /\ ~last.err
    /\ \/ typ = "PtrWrapper" /\ sent[1][1] = <<>> /\ sent[1][3] # <<>>
             /\ sent[1][3][1].nil /\ dst[3] = <<[nil |-> FALSE, e |-> <<>>, spare |-> <<>>]>>
       \/ typ = "SliceString" /\ order = "BE" /\ Len(sent[1][2].e) = 2
             /\ Len(sent[1][2].e[1][2]) # Len(sent[1][2].e[2][2])
             /\ dst = sent[1]

\* ------------------------------------------------------------------- C2
\* The wire layout as the claim words it: a number is its Width bytes in the
\* order (a bool one byte 1/0), a string or byte buffer its raw bytes, a
\* slice or array its elements in index order, a struct its non-skipped
\* fields in declaration order, a pointer its referent (a zero referent when
\* nil), a custom type what its hook writes; nothing in between.
RECURSIVE RawBytes(_, _)
RawBytes(ft, x) ==
    IF ft.custom THEN customEncode(ft, x, order)
    ELSE CASE ft.k = "bool" -> <<IF x THEN 1 ELSE 0>>
           [] ft.k \in NumericKinds \ {"bool"} -> PutUint(order, x, Width(FixedKind(ft.k)))
           [] ft.k = "string" -> x
           [] ft.k = "slice" ->
                IF ft.elem.k = "uint8" THEN x.e
                ELSE Flatten([i \in 1..Len(x.e) |-> RawBytes(ft.elem, x.e[i])])
           [] ft.k = "array" ->
                IF ft.elem.k = "uint8" THEN x
                ELSE Flatten([i \in 1..Len(x) |-> RawBytes(ft.elem, x[i])])
           [] ft.k = "struct" ->
                Flatten([i \in 1..Len(ft.fields) |->
                            IF OffWire(ft.fields[i]) THEN <<>>
                            ELSE RawBytes(ft.fields[i].type, x[i])])
           [] ft.k = "ptr" -> RawBytes(ft.elem, IF x = <<>> THEN Zero(ft.elem) ELSE x[1])
           [] OTHER -> <<>>

\* the fields 1..n of the struct value v in that layout
RawFields(t, v, n) ==
    Flatten([i \in 1..n |->
                IF OffWire(t.fields[i]) THEN <<>>
                ELSE RawBytes(t.fields[i].type, v[i])])

PlainStruct(t) == t.k = "struct" /\ ~t.custom

\* C2: Encode of a struct writes the encodings of its exported, non-excluded
\* fields in declaration order and nothing else; strings and byte buffers as
\* their raw bytes, the designator with the value the caller gave it.  The
\* example {Size = 5, Payload = [0,1,2,3,4]} is 00 00 00 05 00 01 02 03 04
\* in big-endian.
C2_StructLayout ==
    last.op = "encode" /\ PlainStruct(T(typ)) =>
        /\ last.wrote = RawFields(T(typ), sent[1], Len(T(typ).fields))
        /\ (typ = "Payload" /\ order = "BE" /\ sent[1] = Example =>
                last.wrote = <<0, 0, 0, 5, 0, 1, 2, 3, 4>>)

\* a struct was encoded whose designator is not the length of its target
C2_Witness ==
    /\ last.op = "encode" /\ typ = "String"
    /\ sent[1][1] = 258 /\ Len(sent[1][2]) = 2
    /\ Len(last.wrote) = 6

\* ------------------------------------------------------------------- C3
\* the string and slice fields of t that no earlier sibling records a
\* length for
Unsized(t) ==
    {i \in 1..Len(t.fields) :
        /\ ~OffWire(t.fields[i])
        /\ ~t.fields[i].type.custom
        /\ t.fields[i].type.k \in {"string", "slice"}
        /\ ~\E j \in 1..(i - 1) : Records(t.fields[j], t.fields[i].name)}

First(S) == CHOOSE i \in S : \A j \in S : i <= j

\* the last call was the decode of the bytes Encode wrote
FirstDecode ==
    /\ last.op = "decode"
    /\ Len(sent) = 1
    /\ last.before = Encode(T(typ), sent[1], order)

\* C3: a string, byte-buffer or slice field reached with no length recorded
\* under its name makes Decode fail at that field; nothing is read for the
\* field, what the earlier fields consumed stays consumed, and the field
\* and those after it are left as they were.
C3_UnsizedFieldFails ==
    last.op = "decode" /\ PlainStruct(T(typ)) /\ Unsized(T(typ)) # {} =>
        LET t == T(typ)
            i == First(Unsized(t))
        IN  /\ last.err
            /\ FirstDecode =>
                 /\ last.trace = <<t.fields[i].name, "size of slice not specified">>
                 /\ Consumed = Len(RawFields(t, sent[1], i - 1))
                 /\ \A j \in i..Len(t.fields) : dst[j] = last.into[j]

\* a decode failed at a field declared before its designator, after an
\* earlier field had been read
C3_Witness ==
    /\ FirstDecode /\ typ = "Late" /\ last.err
    /\ last.trace[1] = "Data"
    /\ Consumed = 1 /\ Len(buf) > 0

\* ------------------------------------------------------------------- C4
BadTarget == {"decode-value", "decode-nil", "unmarshal-value", "unmarshal-nil"}

\* C4: Decode (also through Unmarshal) with a target that is no pointer, or
\* a nil pointer, fails without reading: the buffer and the destination are
\* as before, and the Decode that follows with a valid pointer finds the
\* whole encoding.
C4_BadTargetReadsNothing ==
    /\ last.op \in BadTarget =>
          last.err /\ buf = last.before /\ dst = last.into
    /\ last.op = "decode" /\ last.prev \in BadTarget
          /\ RoundTripCase /\ Sized(T(typ), FALSE) =>
                ~last.err /\ buf = <<>> /\ dst = Normal(T(typ), sent[1], TRUE)

\* a value was decoded in full right after a Decode with a non-pointer
C4_Witness ==
    /\ last.op = "decode" /\ last.prev = "decode-value"
    /\ ~last.err /\ last.before # <<>> /\ buf = <<>>
    /\ dst = sent[1]

\* ------------------------------------------------------------------- C5
HasSkipped(t) == PlainStruct(t) /\ \E i \in 1..Len(t.fields) : OffWire(t.fields[i])

\* the number of bytes of a type without strings, slices and custom types
RECURSIVE FixedWidth(_)
FixedWidth(t) ==
    CASE t.k \in NumericKinds -> Width(FixedKind(t.k))
      [] t.k = "array"  -> t.len * FixedWidth(t.elem)
      [] t.k = "ptr"    -> FixedWidth(t.elem)
      [] t.k = "struct" ->
            LET RECURSIVE Sum(_)
                Sum(i) == IF i = 0 THEN 0
                          ELSE Sum(i - 1) + (IF OffWire(t.fields[i]) THEN 0
                                             ELSE FixedWidth(t.fields[i].type))
            IN  Sum(Len(t.fields))
      [] OTHER -> 0

\* C5: an excluded or unexported field takes no bytes in either direction:
\* values that differ only in such fields encode alike, and decoding reads
\* nothing for such a field and leaves it as the destination had it.
C5_SkippedFieldsOffWire ==
    HasSkipped(T(typ)) =>
        LET t == T(typ)
        IN  /\ last.op = "encode" =>
                 \A w \in Inputs(typ) :
                    (\A i \in 1..Len(t.fields) : OffWire(t.fields[i]) \/ w[i] = sent[1][i])
                       => Encode(t, w, order) = last.wrote
            /\ last.op = "decode" =>
                 \A i \in 1..Len(t.fields) : OffWire(t.fields[i]) => dst[i] = last.into[i]
            /\ last.op = "decode" /\ ~last.err => Consumed = FixedWidth(t)

\* a Header whose excluded field was set was decoded into a destination
\* whose excluded and unexported fields were set to something else
C5_Witness ==
    /\ typ = "Header" /\ FirstDecode /\ ~last.err
    /\ sent[1][2] = Wide(-2) /\ sent[1][5] = Wide(-2)
    /\ last.into = Junk(T(typ))
    /\ dst[2] = Wide(9) /\ dst[5] = Wide(9) /\ dst[1] = sent[1][1]

\* ------------------------------------------------------------------- C6
\* The wire layout with the hooks applied at every occurrence of a custom
\* type: as RawBytes, but an element of a slice or array whose type has the
\* hooks goes through the hook also when its kind is uint8.
RECURSIVE HookedBytes(_, _)
HookedBytes(ft, x) ==
    IF ft.custom THEN customEncode(ft, x, order)
    ELSE CASE ft.k = "slice" ->
                IF ft.elem.k = "uint8" /\ ~ft.elem.custom THEN x.e
                ELSE Flatten([i \in 1..Len(x.e) |-> HookedBytes(ft.elem, x.e[i])])
           [] ft.k = "array" ->
                IF ft.elem.k = "uint8" /\ ~ft.elem.custom THEN x
                ELSE Flatten([i \in 1..Len(x) |-> HookedBytes(ft.elem, x[i])])
           [] ft.k = "struct" ->
                Flatten([i \in 1..Len(ft.fields) |->
                            IF OffWire(ft.fields[i]) THEN <<>>
                            ELSE HookedBytes(ft.fields[i].type, x[i])])
           [] ft.k = "ptr" -> HookedBytes(ft.elem, IF x = <<>> THEN Zero(ft.elem) ELSE x[1])
           [] OTHER -> RawBytes(ft, x)

\* C6: a value of a type with the Encode/Decode hooks goes through the hooks
\* wherever it occurs (top level, struct field, behind a pointer, element of
\* a slice or array, whatever the kind of the type): Encode writes what the
\* hooks write for it, and a successful Decode of those bytes into a fresh
\* destination consumes what the hooks read.
C6_CustomEverywhere ==
    /\ last.op = "encode" => last.wrote = HookedBytes(T(typ), sent[1])
    /\ RoundTripCase /\ ~last.err => Consumed = Len(HookedBytes(T(typ), sent[1]))

\* ------------------------------------------------------------------- C7
\* v with every nil pointer the default traversal reaches replaced by a
\* pointer to the zero value of its referent
RECURSIVE Present(_, _)
Present(t, v) ==
    IF t.custom THEN v
    ELSE CASE t.k = "slice"  ->
                IF t.elem.k = "uint8" THEN v
                ELSE [v EXCEPT !.e = [i \in 1..Len(v.e) |-> Present(t.elem, v.e[i])]]
           [] t.k = "array"  ->
                IF t.elem.k = "uint8" THEN v
                ELSE [i \in 1..Len(v) |-> Present(t.elem, v[i])]
           [] t.k = "struct" ->
                [i \in 1..Len(t.fields) |->
                    IF OffWire(t.fields[i]) THEN v[i]
                    ELSE Present(t.fields[i].type, v[i])]
           [] t.k = "ptr"    ->
                <<Present(t.elem, IF v = <<>> THEN Zero(t.elem) ELSE v[1])>>
           [] OTHER -> v

\* no pointer of v that the default traversal reaches is nil
RECURSIVE NoNil(_, _)
NoNil(t, v) ==
    IF t.custom THEN TRUE
    ELSE CASE t.k = "slice"  ->
                t.elem.k = "uint8" \/ \A i \in 1..Len(v.e) : NoNil(t.elem, v.e[i])
           [] t.k = "array"  ->
                t.elem.k = "uint8" \/ \A i \in 1..Len(v) : NoNil(t.elem, v[i])
           [] t.k = "struct" ->
                \A i \in 1..Len(t.fields) :
                    OffWire(t.fields[i]) \/ NoNil(t.fields[i].type, v[i])
           [] t.k = "ptr"    -> v # <<>> /\ NoNil(t.elem, v[1])
           [] OTHER -> TRUE

\* the pointer-typed fields of the struct type t
PointerFields(t) ==
    {i \in 1..Len(t.fields) : ~OffWire(t.fields[i]) /\ t.fields[i].type.k = "ptr"}

\* C7: Encode writes for a nil pointer the bytes it writes for a pointer to
\* the zero value of the referent; after a successful Decode no pointer the
\* traversal reached is nil, and every pointer field holds a referent filled
\* from the stream alone, the same whatever the destination held before.
C7_NilPointerIsZero ==
    /\ last.op = "encode" =>
          last.wrote = Encode(T(typ), Present(T(typ), sent[1]), order)
    /\ last.op = "decode" /\ ~last.err =>
          /\ NoNil(T(typ), dst)
          /\ PlainStruct(T(typ)) =>
                \A i \in PointerFields(T(typ)) :
                    dst[i] = Decode("pointer", T(typ), Zero(T(typ)), last.before, order).val[i]

\* a value with nil pointers was encoded and then decoded into a destination
\* whose pointers pointed to other values
C7_Witness ==
    /\ typ = "PtrWrapper" /\ FirstDecode /\ ~last.err
    /\ sent[1][1] = <<>> /\ sent[1][2] = <<>> /\ sent[1][3] = <<>>
    /\ last.into = Junk(T(typ))
    /\ dst = <<<<Zero(Inner)>>, <<Wide(0)>>,
               <<[nil |-> FALSE, e |-> <<>>, spare |-> <<>>]>>>>
    /\ Len(last.before) = 16

\* ------------------------------------------------------------------- C8
Unspecified == "size of slice not specified"

\* the elements of a decoded slice or array of String structs, and the
\* elements that were encoded
Elements(v) == IF typ = "SliceString" THEN v[2].e ELSE v

\* C8: a length recorded by a designator serves only the later fields of the
\* struct being decoded.  The string of a nested struct does not get the
\* length its enclosing struct recorded under the same name (Down), the
\* string of the enclosing struct does not get the one a nested struct
\* recorded (Up): both fail as fields without a length, after the bytes
\* before them have been read.  Every element of a slice or array of
\* {Len, Data} structs is read with its own Len.
C8_TablePerStruct ==
    FirstDecode =>
        /\ typ = "Down" =>
              /\ last.err /\ last.trace = <<"In", "Data", Unspecified>>
              /\ Consumed = 1 /\ dst[2] = last.into[2]
        /\ typ = "Up" =>
              /\ last.err /\ last.trace = <<"Data", Unspecified>>
              /\ Consumed = 4 + Len(sent[1][1][2]) /\ dst[2] = last.into[2]
        /\ typ \in {"SliceString", "ArrayString"} /\ ~last.err =>
              \A i \in 1..Len(Elements(dst)) :
                  /\ i <= Len(Elements(sent[1]))
                  /\ Elements(dst)[i][1] = Elements(sent[1])[i][1]
                  /\ Elements(dst)[i][1] > 0 =>
                        Elements(dst)[i][2] = Elements(sent[1])[i][2]

\* a slice of two strings of different lengths was decoded, each with its own
C8_Witness ==
    /\ typ = "SliceString" /\ FirstDecode /\ ~last.err
    /\ last.into = Zero(T(typ))
    /\ Len(dst[2].e) = 2
    /\ dst[2].e[1] = <<2, Run(97, 2)>>
    /\ dst[2].e[2] = <<1, Run(109, 1)>>
    /\ buf = <<>>

\* ------------------------------------------------------------------- C9
\* the pairs <<i, j>> of the struct type t: field i records the length of
\* the later string or slice field j (directly or behind pointers)
RECURSIVE Container(_)
Container(t) == IF t.k = "ptr" THEN Container(t.elem) ELSE t.k \in {"string", "slice"}

Governs(t) ==
    {p \in (1..Len(t.fields)) \X (1..Len(t.fields)) :
        /\ p[1] < p[2]
        /\ Records(t.fields[p[1]], t.fields[p[2]].name)
        /\ ~OffWire(t.fields[p[2]])
        /\ ~t.fields[p[2]].type.custom
        /\ Container(t.fields[p[2]].type)}

RECURSIVE IsEmpty(_, _)
IsEmpty(t, v) ==
    CASE t.k = "ptr"    -> v # <<>> /\ IsEmpty(t.elem, v[1])
      [] t.k = "slice"  -> ~v.nil /\ v.e = <<>>
      [] OTHER          -> v = <<>>

\* C9: a string, byte-buffer or slice field decoded with a length of 0 is
\* empty after a successful Decode (a slice non-nil with no elements),
\* whatever the destination held, and no byte is read for it.
C9_ZeroLengthEmpties ==
    last.op = "decode" /\ ~last.err /\ PlainStruct(T(typ)) =>
        \A p \in Governs(T(typ)) :
            CountOf(T(typ).fields[p[1]].type, dst[p[1]]) = Wide(0) =>
                /\ IsEmpty(T(typ).fields[p[2]].type, dst[p[2]])
                /\ Len(T(typ).fields) = 2 =>
                      Consumed = FixedWidth(T(typ).fields[p[1]].type)

\* ------------------------------------------------------------------- C10
\* C10: a designator whose decoded value is no valid count (a negative
\* signed value, an unsigned value beyond the native int, which the
\* conversion turns negative) makes Decode fail.
C10_BadCountFails ==
    last.op = "decode" /\ PlainStruct(T(typ)) =>
        \A p \in Governs(T(typ)) :
            Negative(CountOf(T(typ).fields[p[1]].type, dst[p[1]])) => last.err

\* ------------------------------------------------------------------- C11
\* the number of values decoded so far
Decoded == Len(sent) - pending

\* what the Encode calls i..n wrote, one after the other
WroteFrom(i) ==
    Flatten([k \in 1..(Len(sent) - i + 1) |-> Encode(T(typ), sent[i + k - 1], order)])

\* C11 as claimed: the k-th Decode on the stream returns the k-th value
\* encoded.
C11_StreamAsClaimed ==
    last.op = "decode" => ~last.err /\ dst = sent[Decoded]

\* C11 (amended): the buffer holds the encodings of the values not decoded
\* yet, in the order of the Encode calls; the k-th Decode succeeds, consumes
\* exactly the bytes the k-th Encode wrote and yields the k-th value with
\* every nil pointer replaced by a pointer to a zero value and every nil
\* slice by an empty one; when every value is decoded the buffer is empty.
C11_StreamInOrder ==
    /\ buf = WroteFrom(Decoded + 1)
    /\ last.op = "encode" => last.wrote = Encode(T(typ), sent[Len(sent)], order)
    /\ last.op = "decode" =>
          /\ ~last.err
          /\ Consumed = Len(Encode(T(typ), sent[Decoded], order))
          /\ dst = Normal(T(typ), sent[Decoded], TRUE)
    /\ pending = 0 => buf = <<>>

\* two strings of different lengths were encoded one after the other and
\* the second has just been decoded
C11_Witness ==
    /\ typ = "String" /\ last.op = "decode" /\ last.prev = "decode"
    /\ Len(sent) = 2 /\ Decoded = 2
    /\ Len(sent[1][2]) = 2 /\ Len(sent[2][2]) = 1
    /\ dst = sent[2] /\ buf = <<>>

\* ------------------------------------------------------------------- C12
\* the integers of the value v of type t with their kinds, as a sequence of
\* <<kind, encoded, decoded>> (t a number or a struct of numbers)
Numbers(t, v, w) ==
    IF t.k = "struct"
    THEN [i \in 1..Len(t.fields) |-> <<t.fields[i].type.k, v[i], w[i]>>]
    ELSE <<<<t.k, v, w>>>>

\* the bytes of the value x of kind k, least significant first
Image(k, x) == PutUint("LE", x, Width(k))

\* C12 as claimed: an integer of more than one byte encoded with one order
\* and decoded with the other comes back, without error, as another value.
C12_OtherOrderAsClaimed ==
    last.op = "decode-cross" =>
        /\ ~last.err
        /\ \A n \in 1..Len(Numbers(T(typ), sent[1], dst)) :
              LET x == Numbers(T(typ), sent[1], dst)[n]
              IN  Width(x[1]) > 1 => x[3] # x[2]

\* C12 (amended): an integer encoded with one order and decoded with the
\* other comes back, without error and with all its bytes consumed, as the
\* value whose bytes are those of the original in reverse; it differs from
\* the original unless the original's bytes read the same in both
\* directions (0, all ones, any one-byte value).
C12_OtherOrderReverses ==
    last.op = "decode-cross" =>
        /\ ~last.err /\ buf = <<>>
        /\ \A n \in 1..Len(Numbers(T(typ), sent[1], dst)) :
              LET x == Numbers(T(typ), sent[1], dst)[n]
              IN  /\ Image(x[1], x[3]) = Reverse(Image(x[1], x[2]))
                  /\ x[3] = x[2] <=> Image(x[1], x[2]) = Reverse(Image(x[1], x[2]))

\* 0x0102 written big-endian was read little-endian as 0x0201
C12_Witness ==
    /\ typ = "Uint16" /\ order = "BE" /\ last.op = "decode-cross"
    /\ sent[1] = 258 /\ last.before = <<1, 2>>
    /\ ~last.err /\ dst = 513

\* ------------------------------------------------------------------- C13
\* a slice or array whose elements are decoded one by one
Itemised(t) == ~t.custom /\ t.k \in {"slice", "array"} /\ t.elem.k # "uint8"

\* the parts of the value v of type t that are decoded one after the other
\* (the fields of a struct, the elements of a slice or array), their types,
\* and the number of bytes each takes on the wire
Parts(t, v)    == IF t.k = "slice" THEN v.e ELSE v
PartType(t, i) == IF t.k = "struct" THEN t.fields[i].type ELSE t.elem
PartSize(t, v, i) ==
    IF t.k = "struct" /\ OffWire(t.fields[i]) THEN 0
    ELSE Len(RawBytes(PartType(t, i), Parts(t, v)[i]))

RECURSIVE SizeUpTo(_, _, _)
SizeUpTo(t, v, i) == IF i = 0 THEN 0 ELSE SizeUpTo(t, v, i - 1) + PartSize(t, v, i)

\* the part of v in which a source of n bytes ends
PartAt(t, v, n) ==
    CHOOSE i \in 1..Len(Parts(t, v)) :
        SizeUpTo(t, v, i - 1) <= n /\ n < SizeUpTo(t, v, i)

\* the names of the struct fields, outermost first, on the way to the read
\* that a source of n bytes cannot complete, for the encoded value v
RECURSIVE FailPath(_, _, _)
FailPath(t, v, n) ==
    IF PlainStruct(t) \/ Itemised(t)
    THEN LET i == PartAt(t, v, n)
         IN  (IF t.k = "struct" THEN <<t.fields[i].name>> ELSE <<>>)
             \o FailPath(PartType(t, i), Parts(t, v)[i], n - SizeUpTo(t, v, i - 1))
    ELSE IF t.k = "ptr" /\ ~t.custom
    THEN FailPath(t.elem, IF v = <<>> THEN Zero(t.elem) ELSE v[1], n)
    ELSE <<>>

\* what the destination part j holds on entry, old being the destination;
\* the part of a slice beyond its length is what its backing array holds
Before(t, old, j) ==
    IF t.k = "slice"
    THEN (IF j <= Len(Backing(old)) THEN Backing(old)[j] ELSE Zero(t.elem))
    ELSE old[j]

\* in the decoded destination d (old before the call) nothing after the
\* failing read has been decoded, at every level on the way to it
RECURSIVE Aborted(_, _, _, _, _)
Aborted(t, v, d, old, n) ==
    IF PlainStruct(t) \/ Itemised(t)
    THEN LET i == PartAt(t, v, n)
         IN  /\ Len(Parts(t, d)) = Len(Parts(t, v))
             /\ \A j \in (i + 1)..Len(Parts(t, d)) : Parts(t, d)[j] = Before(t, old, j)
             /\ Aborted(PartType(t, i), Parts(t, v)[i], Parts(t, d)[i],
                        Before(t, old, i), n - SizeUpTo(t, v, i - 1))
    ELSE IF t.k = "ptr" /\ ~t.custom
    THEN /\ d # <<>>
         /\ Aborted(t.elem, IF v = <<>> THEN Zero(t.elem) ELSE v[1], d[1], Zero(t.elem), n)
    ELSE t.custom \/ d = old

\* the last call decoded from a source that ended inside the encoding
CutCase == last.op = "decode" /\ last.prev = "cut"

\* ... the encoding of a value whose strings, byte buffers and slices all
\* have a designator, which holds their actual length, and that has no
\* array reflect.Copy refuses: the decode gets as far as the source goes,
\* which ends inside a number, a string or a byte buffer
TrueCut ==
    /\ CutCase /\ Consistent(T(typ), sent[1]) /\ Sized(T(typ), FALSE)
    /\ ~Copied(T(typ), sent[1])

\* a struct of a designator and its target, a string, a byte buffer or a
\* slice of numbers, and the bytes one element of the target takes
Counted(t) ==
    /\ PlainStruct(t) /\ Len(t.fields) = 2
    /\ ~t.fields[1].type.custom
    /\ t.fields[1].type.k \in SignedKinds \cup UnsignedKinds
    /\ Records(t.fields[1], t.fields[2].name)
    /\ ~t.fields[2].type.custom
    /\ \/ t.fields[2].type.k = "string"
       \/ /\ t.fields[2].type.k = "slice"
          /\ ~t.fields[2].type.elem.custom
          /\ t.fields[2].type.elem.k \in NumericKinds

Unit(t) == IF t.k = "string" THEN 1 ELSE Width(FixedKind(t.elem.k))

\* the last call decoded from a source that holds the designator of such a
\* struct in full and, after it, fewer bytes than its count asks for
Starved ==
    /\ last.op = "decode" /\ last.prev \in {"encode", "cut"}
    /\ Counted(T(typ))
    /\ LET t == T(typ)
           w == Width(FixedKind(t.fields[1].type.k))
           c == CountOf(t.fields[1].type, sent[1][1])
       IN  /\ Len(last.before) >= w
           /\ Positive(c)
           /\ \/ ~Small(c)
              \/ c[2] * Unit(t.fields[2].type) > Len(last.before) - w

\* C13: when the source ends before a number, string or byte buffer is read
\* in full, at whatever depth, Decode returns an error; the error carries
\* the names of the enclosing struct fields, outermost first; and no field
\* or element after the failing one is decoded, at any enclosing level.
\* This holds whatever the length the string or byte buffer was resolved to:
\* when the source has fewer bytes than the count just decoded asks for,
\* Decode returns an error that names the counted field (unless the system
\* ends the process for lack of memory).
C13_ShortSourceFails ==
    /\ TrueCut =>
          /\ last.err
          /\ buf = <<>>
          /\ SubSeq(last.trace, 1, Len(last.trace) - 1)
                = FailPath(T(typ), sent[1], Len(last.before))
          /\ Aborted(T(typ), sent[1], dst, last.into, Len(last.before))
    /\ Starved /\ last.crash # OutOfMemory =>
          /\ last.err
          /\ last.trace[1] = T(typ).fields[2].name

\* ------------------------------------------------------------------- C14
\* C14 as claimed: after a Decode that failed the destination is what it
\* was before the call.
C14_AllOrNothing ==
    last.op = "decode" /\ last.err => dst = last.into

\* in the destination d, fresh before the call, everything in front of the
\* failing read holds what was decoded for it, at every level on the way
RECURSIVE Kept(_, _, _, _)
Kept(t, v, d, n) ==
    IF PlainStruct(t) \/ Itemised(t)
    THEN LET i == PartAt(t, v, n)
         IN  /\ \A j \in 1..(i - 1) :
                   Parts(t, d)[j] =
                      IF t.k = "struct" /\ OffWire(t.fields[j])
                      THEN Zero(PartType(t, j))
                      ELSE Normal(PartType(t, j), Parts(t, v)[j], TRUE)
             /\ Kept(PartType(t, i), Parts(t, v)[i], Parts(t, d)[i],
                     n - SizeUpTo(t, v, i - 1))
    ELSE IF t.k = "ptr" /\ ~t.custom
    THEN d # <<>> /\ Kept(t.elem, IF v = <<>> THEN Zero(t.elem) ELSE v[1], d[1], n)
    ELSE TRUE

\* the last call did not return nil: it returned an error or panicked
Failed == last.err \/ last.crash # ""

\* the field of the struct type t at which the last call stopped: the one
\* the error names or, after a panic, the one with the array reflect.Copy
\* refused or the target of the count that make or Grow refused
StoppedAt(t) ==
    IF last.err
    THEN CHOOSE i \in 1..Len(t.fields) : t.fields[i].name = last.trace[1]
    ELSE IF last.crash = CopyMismatch
    THEN First({i \in 1..Len(t.fields) :
                  ~OffWire(t.fields[i]) /\ Copied(t.fields[i].type, sent[1][i])})
    ELSE CHOOSE i \in 1..Len(t.fields) :
            \E p \in Governs(t) :
                /\ p[2] = i
                /\ Positive(CountOf(t.fields[p[1]].type, dst[p[1]]))
                /\ ~Small(CountOf(t.fields[p[1]].type, dst[p[1]]))

\* the first field of t that is a string or a slice, directly or behind
\* pointers (one past the last field when there is none)
FirstContainer(t) ==
    LET S == {i \in 1..Len(t.fields) :
                ~OffWire(t.fields[i]) /\ ~t.fields[i].type.custom
                /\ Container(t.fields[i].type)}
    IN  IF S = {} THEN Len(t.fields) + 1 ELSE First(S)

\* a type decoded by one read, or by none
Leaf(t) == ~t.custom /\ (t.k \in NumericKinds \cup {"string"}
                          \/ (t.k = "slice" /\ t.elem.k = "uint8"))

\* C14 (amended): a Decode ends in one of three ways.  It returns nil with
\* every field decoded (it does when the source holds the whole encoding of
\* a value whose designators hold the actual lengths).  It returns an error:
\* when the source is short, a field has no length recorded, or a designator
\* holds another count than the bytes that follow.  Or it does not return:
\* it panics in make / Grow when a resolved length is beyond what the
\* runtime allocates (and the process dies for lack of memory when the
\* system cannot provide what the runtime accepts), and in reflect.Copy
\* when it has read the bytes of an array of a byte-kinded type that has
\* the hooks.  After an error or a
\* panic the destination is decoded up to the failing read: what comes
\* before it holds the decoded values, the value the read was for and
\* everything after it are as before the call (pointers on the way point to
\* new referents, slices on the way have their new length, their new
\* elements being what the backing array held, zero when it is new).
C14_DecodedUpToFailure ==
    /\ TrueCut =>
          /\ last.err
          /\ Aborted(T(typ), sent[1], dst, last.into, Len(last.before))
          /\ last.into = Zero(T(typ)) => Kept(T(typ), sent[1], dst, Len(last.before))
    /\ last.op = "decode" /\ last.prev = "encode"
          /\ Consistent(T(typ), sent[1]) /\ Sized(T(typ), FALSE) =>
             IF Copied(T(typ), sent[1])
             THEN last.crash = CopyMismatch
             ELSE /\ ~Failed
                  /\ buf = <<>>
                  /\ last.into = Zero(T(typ)) => dst = Normal(T(typ), sent[1], TRUE)
    /\ last.op = "decode" /\ Failed /\ last.crash # OutOfMemory
          /\ PlainStruct(T(typ)) =>
             LET t == T(typ)
                 i == StoppedAt(t)
             IN  /\ \A j \in (i + 1)..Len(t.fields) : dst[j] = last.into[j]
                 /\ \/ Leaf(t.fields[i].type)
                    \/ last.crash \notin {"", CopyMismatch}
                    \/ last.crash = CopyMismatch /\ t.fields[i].type.k = "array"
                    => dst[i] = last.into[i]
                 /\ last.into = Zero(t) =>
                       \A j \in 1..(i - 1) :
                           j < FirstContainer(t) =>
                              dst[j] = IF OffWire(t.fields[j]) THEN Zero(t.fields[j].type)
                                       ELSE Normal(t.fields[j].type, sent[1][j], TRUE)

\* a request was decoded from a source that ended inside its header: the
\* call failed and the destination holds the fields read before that
C14_Witness ==
    /\ CutCase /\ typ = "Request" /\ last.err
    /\ last.into = Zero(T(typ))
    /\ last.trace[1] = "Header" /\ last.trace[2] = "ClientID"
    /\ sent[1][1] = 258 /\ dst[1] = 258
    /\ dst[3][2] = -2
    /\ dst # last.into

\* ------------------------------------------------------------------- C15
\* the designator / target pairs of t in which one of the two is a pointer
ThroughPointers(t) ==
    {p \in Governs(t) : t.fields[p[1]].type.k = "ptr" \/ t.fields[p[2]].type.k = "ptr"}

\* the container behind the pointers of v
RECURSIVE Referent(_, _)
Referent(t, v) == IF t.k = "ptr" THEN Referent(t.elem, v[1]) ELSE v

\* C15: a designator that is a pointer (to a pointer ...) to an integer gives
\* the count it points to once decoded, and a target that is a pointer to a
\* string or slice gets that count through its new referent: the decode of
\* a value whose designators hold the actual lengths succeeds, every pointer
\* on the way is set, the container has as many elements as the count says
\* (the bytes that follow the designator, for a string), and a count of 0
\* gives a non-nil pointer to an empty container.
C15_LengthThroughPointers ==
    LET t == T(typ)
    IN  last.op = "decode" /\ PlainStruct(t) /\ ThroughPointers(t) # {} =>
          /\ FirstDecode /\ Consistent(t, sent[1]) => ~last.err
          /\ ~last.err =>
                \A p \in ThroughPointers(t) :
                    LET dt == t.fields[p[1]].type
                        ct == t.fields[p[2]].type
                        c  == CountOf(dt, dst[p[1]])
                    IN  /\ NoNil(dt, dst[p[1]]) /\ NoNil(ct, dst[p[2]])
                        /\ FirstDecode => c = CountOf(dt, sent[1][p[1]])
                        /\ ~Negative(c) => <<0, TargetLen(ct, dst[p[2]])>> = c
                        /\ c = Wide(0) => IsEmpty(ct, dst[p[2]])
                        /\ typ = "PtrString" /\ Positive(c) =>
                              Referent(ct, dst[p[2]]) = SubSeq(last.before, 2, c[2] + 1)

\* a string behind a pointer was decoded with the count found behind two
\* pointers, into a destination whose pointers pointed elsewhere
C15_Witness ==
    /\ typ = "PtrString" /\ FirstDecode /\ ~last.err
    /\ last.into = Junk(T(typ))
    /\ sent[1] = <<<<<<2>>>>, <<Run(97, 2)>>>>
    /\ dst = sent[1]

\* ------------------------------------------------------------------- C16
\* the indices of the other fields of t, in declaration order
RECURSIVE RuledUpTo(_, _)
RuledUpTo(t, n) ==
    IF n = 0 THEN <<>>
    ELSE RuledUpTo(t, n - 1) \o (IF NoRule(t.fields[n]) THEN <<>> ELSE <<n>>)

Ruled(t) == RuledUpTo(t, Len(t.fields))

\* the struct type t and its value v without the fields that have no rule
Bare(t)     == [t EXCEPT !.fields = [n \in 1..Len(Ruled(t)) |-> t.fields[Ruled(t)[n]]]]
Strip(t, v) == [n \in 1..Len(Ruled(t)) |-> v[Ruled(t)[n]]]

\* C16: a field of a shape without a traversal rule (an interface, a map, a
\* complex number, a uintptr) takes part in nothing: Encode writes what it
\* writes for
\* the struct without the field, Decode succeeds or fails, reads and stores
\* what it does for the struct without the field, and leaves the field as
\* the destination had it.
C16_NoRuleNoBytes ==
    LET t == T(typ)
    IN  PlainStruct(t) /\ (\E i \in 1..Len(t.fields) : NoRule(t.fields[i])) =>
          /\ last.op = "encode" =>
                /\ last.wrote = Encode(Bare(t), Strip(t, sent[1]), order)
                /\ typ = "Unsupported" => Len(last.wrote) = 3
          /\ last.op = "decode" =>
                LET r == Decode("pointer", Bare(t), Strip(t, last.into), last.before, order)
                IN  /\ last.err = r.err
                    /\ buf = r.rest
                    /\ Strip(t, dst) = r.val
                    /\ \A i \in 1..Len(t.fields) :
                          NoRule(t.fields[i]) => dst[i] = last.into[i]
                    /\ typ = "Unsupported" /\ ~last.err => Consumed = 3

====
